---- MODULE Spec2Model ----
(***************************************************************************)
(* Padel doubles Elo ranking: PadelEloService (src/services.py) over the   *)
(* three repositories of src/database.py and the EloCalculator of          *)
(* src/elo_calculator.py.                                                  *)
(*                                                                         *)
(* The store is three tables (players, matches, rating_history).  A        *)
(* service call is a sequence of separate persistence calls, so each       *)
(* persistence call is one atomic step of the worker running it and the    *)
(* steps of two workers (two Streamlit sessions) interleave.               *)
(*                                                                         *)
(* Floats: ratings are integers, a team rating is a multiple of 0.5 and is *)
(* kept in half points; an expected score and a rating change are kept in  *)
(* units of 1/Scale.  ExpectedTable holds 1/(1+10^(-d/800)) for d = 0..400 *)
(* half points of rating difference, rounded to 1/Scale.  Over this range  *)
(* and every k-factor 1..40, round(old + change) and round(change) computed*)
(* here equal the values the Python floats give.                           *)
(***************************************************************************)
EXTENDS Integers, Sequences, FiniteSets, TLC

VARIABLES
    players,    \* table 'players': sequence of rows, player_id = position
    matches,    \* table 'matches': sequence of rows, match_id = position
    history,    \* table 'rating_history': sequence of rows, history_id = position
    k_factor,   \* EloCalculator.k_factor
    workers,    \* per worker: the service call in progress and its locals
    calls,      \* number of service calls started
    probe       \* the last call of a function without effect on the store, its result

vars == <<players, matches, history, k_factor, workers, calls, probe>>

(* ------------------------------ bounds --------------------------------- *)

\* service calls in a sequential run
MaxCalls == 4

\* service calls in a run with two interleaved workers
MaxConcCalls == 2

\* service calls before a query
MaxQueryCalls == 3

\* matches recorded before the leaderboard page is shown
MaxChartCalls == 11

(* --------------------------- configuration ----------------------------- *)

InitialRating == 1500

DefaultKFactor == 32

\* k-factors the calculator is constructed with
KFactors == {3, DefaultKFactor}

Workers == {1, 2}

\* rows the store holds when the service is constructed
SeedNames == <<"A", "B", "C", "D", "E">>

\* names passed to add_player: one that exists, one that does not
AddNames == {"A", "F"}

\* (four names, winning_team) passed to record_match
ValidLineups ==
    { <<"A", "B", "C", "D">>, <<"A", "B", "C", "E">>,
      <<"A", "B", "D", "E">>, <<"A", "C", "B", "D">> }

MatchInputs ==
    (ValidLineups \X {1, 2})
    \cup { << <<"A", "B", "C", "D">>, 3 >>,     \* bad winning team
           << <<"A", "A", "C", "D">>, 1 >>,     \* duplicate
           << <<"A", "A", "C", "D">>, 0 >>,     \* bad winning team and duplicate
           << <<"G", "B", "G", "D">>, 2 >>,     \* duplicate of a missing name
           << <<"G", "B", "G", "D">>, 3 >>,     \* all three at once
           << <<"G", "B", "C", "H">>, 1 >>,     \* two missing names
           << <<"A", "B", "C", "F">>, 1 >> }    \* F missing until added

\* the inputs of the runs with two interleaved workers: the two valid ones
\* share the players A, B and C
\* inputs of record_match that pass its checks, the last one once F is a player
LedgerInputs ==
    (ValidLineups \X {1, 2}) \cup { << <<"A", "B", "C", "F">>, 1 >> }

ConcMatchInputs ==
    { << <<"A", "B", "C", "D">>, 1 >>,
      << <<"A", "B", "C", "E">>, 2 >>,
      << <<"A", "B", "C", "D">>, 3 >>,
      << <<"A", "A", "C", "D">>, 1 >>,
      << <<"G", "B", "C", "H">>, 1 >>,
      << <<"A", "B", "C", "F">>, 1 >> }

\* largest rating difference, in half points, expected_score is called with
MaxGap == 399

\* a rating of 1500 in half points
ProbeBase == 2 * InitialRating

\* k-factors EloCalculator is constructed with
KArguments == {-2, -1, 0, 1, 2, 3, DefaultKFactor}

\* limit of get_player_history and get_rankings when none is given
DefaultLimit == 10

\* names get_player_history is called with: "G" is never a player
HistoryNames == {"A", "E", "F", "G"}

HistoryLimits == {1, 2, DefaultLimit}

RankingLimits == {1, 2}

\* the rating of the first point of the leaderboard page's rating chart
ChartSeedRating == 1500

\* lineups of the matches recorded before the leaderboard page is shown
ChartLineups == { <<"A", "B", "C", "D">>, <<"A", "B", "C", "E">> }

\* players selected on the leaderboard page
ChartNames == {"A", "E"}

\* scores of a Match: None, or what the form or main.py passes
ScoreValues == {"None", "0", "6", "6-4 6-4"}

(* ------------------------------ floats --------------------------------- *)

Scale == 10 * 1000000

\* 1 / (1 + 10^(-d/800)) in units of 1/Scale, at index d + 1, d = 0..400
ExpectedTable ==
    << 
       5000000, 5007196, 5014391, 5021587, 5028782, 5035977, 5043172, 5050367,
       5057562, 5064757, 5071951, 5079145, 5086338, 5093532, 5100724, 5107917,
       5115109, 5122300, 5129491, 5136682, 5143872, 5151061, 5158250, 5165438,
       5172625, 5179812, 5186998, 5194183, 5201367, 5208551, 5215733, 5222915,
       5230096, 5237276, 5244455, 5251632, 5258809, 5265985, 5273160, 5280333,
       5287506, 5294677, 5301847, 5309016, 5316183, 5323349, 5330514, 5337677,
       5344839, 5352000, 5359159, 5366317, 5373473, 5380628, 5387781, 5394932,
       5402082, 5409230, 5416377, 5423522, 5430665, 5437806, 5444946, 5452083,
       5459219, 5466353, 5473485, 5480615, 5487743, 5494869, 5501994, 5509116,
       5516235, 5523353, 5530469, 5537582, 5544694, 5551803, 5558910, 5566014,
       5573116, 5580216, 5587314, 5594409, 5601501, 5608592, 5615679, 5622765,
       5629847, 5636927, 5644005, 5651080, 5658152, 5665222, 5672288, 5679353,
       5686414, 5693472, 5700528, 5707581, 5714631, 5721678, 5728723, 5735764,
       5742802, 5749837, 5756870, 5763899, 5770925, 5777948, 5784968, 5791984,
       5798998, 5806008, 5813015, 5820018, 5827019, 5834016, 5841010, 5848000,
       5854987, 5861970, 5868950, 5875927, 5882900, 5889869, 5896835, 5903797,
       5910756, 5917711, 5924662, 5931610, 5938554, 5945494, 5952430, 5959363,
       5966292, 5973217, 5980138, 5987055, 5993968, 6000877, 6007782, 6014684,
       6021581, 6028474, 6035363, 6042248, 6049129, 6056006, 6062878, 6069747,
       6076611, 6083470, 6090326, 6097177, 6104024, 6110867, 6117705, 6124539,
       6131368, 6138193, 6145014, 6151830, 6158641, 6165448, 6172250, 6179048,
       6185841, 6192630, 6199414, 6206193, 6212967, 6219737, 6226502, 6233262,
       6240018, 6246768, 6253514, 6260255, 6266991, 6273722, 6280448, 6287169,
       6293885, 6300597, 6307303, 6314004, 6320700, 6327391, 6334077, 6340758,
       6347433, 6354104, 6360769, 6367429, 6374084, 6380733, 6387377, 6394016,
       6400650, 6407278, 6413901, 6420519, 6427131, 6433737, 6440339, 6446934,
       6453525, 6460109, 6466688, 6473262, 6479830, 6486393, 6492949, 6499501,
       6506046, 6512586, 6519120, 6525649, 6532172, 6538689, 6545200, 6551705,
       6558205, 6564699, 6571187, 6577669, 6584145, 6590616, 6597080, 6603538,
       6609991, 6616437, 6622878, 6629312, 6635741, 6642163, 6648580, 6654990,
       6661394, 6667792, 6674184, 6680570, 6686950, 6693323, 6699690, 6706051,
       6712406, 6718754, 6725096, 6731432, 6737762, 6744085, 6750402, 6756713,
       6763017, 6769314, 6775606, 6781891, 6788169, 6794441, 6800707, 6806966,
       6813218, 6819464, 6825704, 6831937, 6838163, 6844383, 6850596, 6856803,
       6863003, 6869196, 6875382, 6881562, 6887736, 6893902, 6900062, 6906215,
       6912362, 6918501, 6924634, 6930760, 6936879, 6942992, 6949097, 6955196,
       6961288, 6967373, 6973451, 6979522, 6985586, 6991644, 6997694, 7003737,
       7009774, 7015803, 7021826, 7027842, 7033850, 7039852, 7045846, 7051833,
       7057814, 7063787, 7069753, 7075712, 7081664, 7087609, 7093546, 7099477,
       7105400, 7111316, 7117225, 7123127, 7129022, 7134909, 7140789, 7146662,
       7152528, 7158386, 7164237, 7170081, 7175917, 7181746, 7187568, 7193383,
       7199190, 7204990, 7210782, 7216568, 7222345, 7228116, 7233879, 7239634,
       7245382, 7251123, 7256856, 7262582, 7268301, 7274012, 7279715, 7285411,
       7291100, 7296781, 7302454, 7308120, 7313779, 7319430, 7325073, 7330709,
       7336337, 7341958, 7347571, 7353176, 7358774, 7364365, 7369948, 7375523,
       7381090, 7386650, 7392203, 7397747, 7403284, 7408814, 7414335, 7419849,
       7425356, 7430854, 7436345, 7441828, 7447304, 7452772, 7458232, 7463685,
       7469129, 7474566, 7479995, 7485417, 7490831, 7496237, 7501635, 7507025,
       7512408, 7517783, 7523150, 7528509, 7533861, 7539205, 7544540, 7549869,
       7555189, 7560501, 7565806, 7571103, 7576392, 7581673, 7586946, 7592212,
       7597469
    >>

\* Python round() of old + delta/Scale for an integer old: nearest integer,
\* a half going to the even neighbour
PyRoundSum(old, delta) ==
    LET q    == delta \div Scale
        r    == delta % Scale
        base == old + q
    IN  IF 2 * r < Scale THEN base
        ELSE IF 2 * r > Scale THEN base + 1
        ELSE IF base % 2 = 0 THEN base ELSE base + 1

\* halves/2 rounded with halves going up
PyRoundHalvesUp(halves) ==
    (halves + 1) \div 2

\* Python round() of halves/2
PyRoundHalves(halves) ==
    LET q == halves \div 2
    IN  IF halves % 2 = 0 THEN q
        ELSE IF q % 2 = 0 THEN q ELSE q + 1

(* --------------------------- EloCalculator ----------------------------- *)

\* ratings in half points; result in units of 1/Scale
expected_score(rating_a, rating_b) ==
    LET d == rating_a - rating_b
    IN  IF d >= 0 THEN ExpectedTable[d + 1] ELSE Scale - ExpectedTable[1 - d]

\* expected minus actual
calculate_rating_change_flipped(k, current_rating, opponent_rating, actual_score) ==
    k * (expected_score(current_rating, opponent_rating) - actual_score * Scale)

\* actual_score is 0 or 1; result in units of 1/Scale
calculate_rating_change(k, current_rating, opponent_rating, actual_score) ==
    k * (actual_score * Scale - expected_score(current_rating, opponent_rating))

\* the mean of the two ratings, in half points
calculate_team_rating(player1_rating, player2_rating) ==
    player1_rating + player2_rating

calculate_match_outcome(k, t1p1, t1p2, t2p1, t2p2, team1_won) ==
    LET team1_rating == calculate_team_rating(t1p1, t1p2)
        team2_rating == calculate_team_rating(t2p1, t2p2)
        team1_actual == IF team1_won THEN 1 ELSE 0
        team2_actual == 1 - team1_actual
    IN  [ team1_rating |-> team1_rating,
          team2_rating |-> team2_rating,
          team1_change |-> calculate_rating_change(k, team1_rating, team2_rating, team1_actual),
          team2_change |-> calculate_rating_change(k, team2_rating, team1_rating, team2_actual) ]

(* ------------------------ expected_score as doubles --------------------- *)

\* A double in [1/8, 1) is a multiple of 2^-55; it is held exactly as
\* <<high, low>>, meaning (high * Limb + low) * 2^-55.
Limb == 2^28

HalfLimbs == 2^26

OneLimbs == 2^27

\* the double 1 / (1 + 10 ** ((rating_b - rating_a) / 400)) for
\* d = rating_a - rating_b in half points, -400..400, at index d + 401
ExpectedBits ==
    <<
       <<32246221, 174571210>>, <<32316788, 14880518>>, <<32387459, 224966631>>, <<32458236, 252612907>>,
       <<32529119, 82193289>>, <<32600106, 234671686>>, <<32671199, 156988640>>, <<32742397, 101108906>>,
       <<32813700, 50279041>>, <<32885107, 255897712>>, <<32956620, 163773284>>, <<33028238, 24735974>>,
       <<33099960, 89330903>>, <<33171787, 70946599>>, <<33243718, 219556254>>, <<33315754, 247975329>>,
       <<33387895, 137167366>>, <<33460140, 136243413>>, <<33532489, 225590577>>, <<33604943, 116871450>>,
       <<33677501, 58329958>>, <<33750163, 29484428>>, <<33822929, 9562524>>, <<33895798, 245936160>>,
       <<33968772, 180379158>>, <<34041850, 59679452>>, <<34115031, 130332214>>, <<34188316, 101668416>>,
       <<34261704, 219596160>>, <<34335196, 192858338>>, <<34408791, 266773966>>, <<34482490, 149495866>>,
       <<34556292, 85751998>>, <<34630197, 51538616>>, <<34704205, 22555236>>, <<34778315, 242639628>>,
       <<34852529, 150025518>>, <<34926845, 256390326>>, <<35001264, 267806502>>, <<35075786, 158482916>>,
       <<35150410, 170764396>>, <<35225137, 9824922>>, <<35299965, 185844478>>, <<35374896, 134960420>>,
       <<35449929, 98315248>>, <<35525064, 48314354>>, <<35600300, 225496530>>, <<35675639, 64791732>>,
       <<35751079, 74568862>>, <<35826620, 226022640>>, <<35902263, 221608668>>, <<35978008, 31913956>>,
       <<36053853, 164091994>>, <<36129800, 51249636>>, <<36205847, 199930396>>, <<36281996, 42630416>>,
       <<36358245, 85281772>>, <<36434595, 28203916>>, <<36511045, 108280624>>, <<36587596, 25217822>>,
       <<36664247, 15285080>>, <<36740998, 46008914>>, <<36817849, 84607922>>, <<36894800, 97992464>>,
       <<36971851, 52764358>>, <<37049001, 183652024>>, <<37126251, 188203828>>, <<37203601, 32094148>>,
       <<37281049, 217558554>>, <<37358597, 172780786>>, <<37436244, 130940676>>, <<37513990, 56472056>>,
       <<37591834, 181933414>>, <<37669777, 202701264>>, <<37747819, 82276278>>, <<37825959, 52283034>>,
       <<37904197, 75598870>>, <<37982533, 114789126>>, <<38060967, 132106902>>, <<38139499, 89492858>>,
       <<38218128, 217010456>>, <<38296855, 207539390>>, <<38375680, 22081758>>, <<38454601, 158197336>>,
       <<38533620, 39390646>>, <<38612735, 162594450>>, <<38691947, 219121364>>, <<38771256, 168405546>>,
       <<38850661, 238002518>>, <<38930163, 118282676>>, <<39009761, 36172940>>, <<39089454, 218285742>>,
       <<39169244, 85612504>>, <<39249129, 132571726>>, <<39329110, 47960674>>, <<39409186, 57132554>>,
       <<39489357, 116690044>>, <<39569623, 182920664>>, <<39649984, 211796682>>, <<39730440, 158975042>>,
       <<39810990, 248232748>>, <<39891635, 166160428>>, <<39972374, 135904112>>, <<40053207, 111858800>>,
       <<40134134, 48103890>>, <<40215154, 166838590>>, <<40296268, 153075526>>, <<40377475, 228382544>>,
       <<40458776, 77140882>>, <<40540169, 188722424>>, <<40621655, 246876990>>, <<40703234, 203474156>>,
       <<40784906, 10067814>>, <<40866669, 154767114>>, <<40948525, 51623756>>, <<41030472, 188115680>>,
       <<41112511, 246098918>>, <<41194642, 175549470>>, <<41276864, 194563380>>, <<41359177, 252485870>>,
       <<41441582, 29911440>>, <<41524077, 12425758>>, <<41606662, 148428490>>, <<41689338, 117568840>>,
       <<41772104, 136052038>>, <<41854960, 151333076>>, <<41937906, 110552304>>, <<42020941, 228970996>>,
       <<42104066, 184665140>>, <<42187280, 192267394>>, <<42270583, 197660880>>, <<42353975, 146414804>>,
       <<42437455, 252220072>>, <<42521024, 191583116>>, <<42604681, 177567884>>, <<42688426, 154489688>>,
       <<42772259, 66350838>>, <<42856179, 125276330>>, <<42940187, 6207680>>, <<43024281, 189080432>>,
       <<43108463, 79776210>>, <<43192731, 157606594>>, <<43277086, 96265184>>, <<43361527, 106005140>>,
       <<43446054, 128333070>>, <<43530667, 104444778>>, <<43615365, 243660976>>, <<43700149, 218121232>>,
       <<43785018, 236526072>>, <<43869972, 238830936>>, <<43955011, 164681920>>, <<44040134, 221851594>>,
       <<44125342, 80932934>>, <<44210633, 217516942>>, <<44296009, 33144822>>, <<44381468, 2791964>>,
       <<44467010, 64255576>>, <<44552635, 155025972>>, <<44638343, 212286946>>, <<44724134, 172916164>>,
       <<44810007, 241921014>>, <<44895963, 87132644>>, <<44982000, 181383648>>, <<45068119, 191895764>>,
       <<45154320, 54022118>>, <<45240601, 239683116>>, <<45326964, 146754164>>, <<45413407, 246549752>>,
       <<45499931, 204775748>>, <<45586535, 223707132>>, <<45673219, 236882106>>, <<45759983, 177538050>>,
       <<45846826, 247047464>>, <<45933749, 109612108>>, <<46020750, 234440794>>, <<46107831, 16701704>>,
       <<46194989, 193442046>>, <<46282226, 159234008>>, <<46369541, 113658970>>, <<46456933, 256001678>>,
       <<46544403, 248379898>>, <<46631951, 21051352>>, <<46719575, 40849764>>, <<46807275, 237443614>>,
       <<46895053, 3336732>>, <<46982906, 72917100>>, <<47070835, 106538356>>, <<47158840, 32697708>>,
       <<47246920, 48036544>>, <<47335075, 80470168>>, <<47423305, 57623902>>, <<47511609, 175269198>>,
       <<47599988, 92017928>>, <<47688441, 3064878>>, <<47776967, 103317522>>, <<47865567, 50525804>>,
       <<47954240, 39024630>>, <<48042985, 262863698>>, <<48131804, 110501810>>, <<48220695, 43855812>>,
       <<48309657, 256124018>>, <<48398692, 134916060>>, <<48487798, 141301814>>, <<48576975, 199199412>>,
       <<48666223, 232246934>>, <<48755542, 163803162>>, <<48844931, 185383828>>, <<48934390, 219791482>>,
       <<49023919, 189551746>>, <<49113518, 16914118>>, <<49203185, 160723702>>, <<49292922, 5809282>>,
       <<49382727, 10467806>>, <<49472600, 95852488>>, <<49562541, 182844560>>, <<49652550, 192054134>>,
       <<49742627, 43821048>>, <<49832770, 195086666>>, <<49922981, 28782010>>, <<50013258, 1312300>>,
       <<50103601, 31945102>>, <<50194010, 39682148>>, <<50284484, 211695718>>, <<50375024, 198023162>>,
       <<50465629, 185309664>>, <<50556299, 91502822>>, <<50647033, 102724480>>, <<50737831, 136400782>>,
       <<50828693, 109698586>>, <<50919618, 207961878>>, <<51010607, 79406384>>, <<51101658, 177297834>>,
       <<51192772, 149340222>>, <<51283948, 179854070>>, <<51375186, 184471078>>, <<51466486, 78570598>>,
       <<51557847, 45716098>>, <<51649269, 785292>>, <<51740751, 126842084>>, <<51832294, 69831256>>,
       <<51923897, 12321328>>, <<52015559, 136634730>>, <<52107281, 87977928>>, <<52199062, 48184364>>,
       <<52290901, 198844596>>, <<52382799, 184436492>>, <<52474755, 186068158>>, <<52566769, 116172666>>,
       <<52658840, 155380088>>, <<52750968, 215647714>>, <<52843153, 208696612>>, <<52935395, 46012806>>,
       <<53027692, 175719300>>, <<53120045, 240399952>>, <<53212454, 150842492>>, <<53304918, 86039644>>,
       <<53397436, 224754882>>, <<53490009, 208652676>>, <<53582636, 216041522>>, <<53675317, 156568758>>,
       <<53768051, 208092688>>, <<53860839, 11377430>>, <<53953679, 12271400>>, <<54046571, 119531274>>,
       <<54139515, 241694122>>, <<54232512, 18643196>>, <<54325559, 163786460>>, <<54418658, 48138736>>,
       <<54511807, 116242074>>, <<54605007, 7118820>>, <<54698256, 164885640>>, <<54791555, 228142056>>,
       <<54884904, 103713562>>, <<54978301, 235088380>>, <<55071747, 260241474>>, <<55165242, 85377696>>,
       <<55258784, 153368546>>, <<55352374, 101576226>>, <<55446011, 104032244>>, <<55539695, 66132376>>,
       <<55633425, 161508936>>, <<55727202, 26725748>>, <<55821024, 103456788>>, <<55914892, 27874796>>,
       <<56008804, 241265404>>, <<56102762, 110980302>>, <<56196764, 77922274>>, <<56290810, 45933848>>,
       <<56384899, 187105066>>, <<56479032, 136468502>>, <<56573208, 65742516>>, <<56667426, 146461728>>,
       <<56761687, 13107546>>, <<56855989, 105286868>>, <<56950333, 57120762>>, <<57044718, 39423206>>,
       <<57139143, 222831612>>, <<57233609, 240937342>>, <<57328115, 264029032>>, <<57422661, 193787638>>,
       <<57517246, 200158844>>, <<57611870, 184483614>>, <<57706533, 47935132>>, <<57801233, 228391186>>,
       <<57895972, 89822930>>, <<57990748, 69780030>>, <<58085561, 68779420>>, <<58180410, 255613192>>,
       <<58275296, 262043712>>, <<58370218, 256546990>>, <<58465176, 139007822>>, <<58560169, 77592220>>,
       <<58655196, 240313518>>, <<58750258, 258162964>>, <<58845355, 30417650>>, <<58940484, 261512968>>,
       <<59035648, 45125064>>, <<59130844, 85397864>>, <<59226073, 12590074>>, <<59321333, 262124956>>,
       <<59416626, 195543680>>, <<59511950, 247990582>>, <<59607306, 49166540>>, <<59702692, 33943288>>,
       <<59798108, 100187740>>, <<59893554, 145634508>>, <<59989030, 67887480>>, <<60084535, 32856894>>,
       <<60180068, 206325496>>, <<60275630, 217079238>>, <<60371220, 230650710>>, <<60466838, 144014426>>,
       <<60562483, 122459324>>, <<60658155, 62719510>>, <<60753853, 129846806>>, <<60849577, 220341468>>,
       <<60945327, 230589288>>, <<61041103, 56863242>>, <<61136903, 132196066>>, <<61232728, 84204602>>,
       <<61328577, 77268772>>, <<61424450, 7226844>>, <<61520346, 38248030>>, <<61616265, 65963242>>,
       <<61712206, 254337658>>, <<61808170, 230366060>>, <<61904156, 157816316>>, <<62000163, 200360168>>,
       <<62096191, 253139450>>, <<62192240, 211203256>>, <<62288309, 237945050>>, <<62384398, 228233504>>,
       <<62480507, 76849606>>, <<62576634, 215359312>>, <<62672781, 1502494>>, <<62768945, 135113754>>,
       <<62865127, 242205046>>, <<62961327, 217144664>>, <<63057544, 222658954>>, <<63153778, 152963132>>,
       <<63250028, 170633916>>, <<63346294, 169740326>>, <<63442576, 44280896>>, <<63538872, 225056290>>,
       <<63635184, 69058314>>, <<63731510, 6955300>>, <<63827849, 200916556>>, <<63924203, 7743188>>,
       <<64020569, 126353516>>, <<64116948, 181865688>>, <<64213340, 67776718>>, <<64309743, 214399684>>,
       <<64406158, 246688206>>, <<64502585, 57980022>>, <<64599022, 78434184>>, <<64695469, 201291010>>,
       <<64791927, 51309284>>, <<64888394, 58509834>>, <<64984870, 116000028>>, <<65081355, 116846448>>,
       <<65177848, 222512078>>, <<65274350, 57551746>>, <<65370859, 51791138>>, <<65467375, 98151296>>,
       <<65563898, 89521304>>, <<65660427, 187195498>>, <<65756963, 15568888>>, <<65853504, 4316190>>,
       <<65950050, 46216338>>, <<66046601, 34025150>>, <<66143156, 128912576>>, <<66239715, 223593548>>,
       <<66336278, 210765222>>, <<66432844, 251544198>>, <<66529413, 238597406>>, <<66625985, 64579302>>,
       <<66722558, 159004606>>, <<66819133, 146072756>>, <<66915709, 186846996>>, <<67012286, 173949786>>,
       <<67108864, 0>>, <<67205441, 94485672>>, <<67302018, 81588456>>, <<67398594, 122362700>>,
       <<67495169, 109430852>>, <<67591742, 203856152>>, <<67688314, 29838052>>, <<67784883, 16891256>>,
       <<67881449, 57670232>>, <<67978012, 44841908>>, <<68074571, 139522880>>, <<68171126, 234410308>>,
       <<68267677, 222219120>>, <<68364223, 264119264>>, <<68460764, 252866568>>, <<68557300, 81239956>>,
       <<68653829, 178914152>>, <<68750352, 170284160>>, <<68846868, 216644316>>, <<68943377, 210883712>>,
       <<69039879, 45923380>>, <<69136372, 151589008>>, <<69232857, 152435424>>, <<69329333, 209925620>>,
       <<69425800, 217126172>>, <<69522258, 67144444>>, <<69618705, 190001272>>, <<69715142, 210455436>>,
       <<69811569, 21747252>>, <<69907984, 54035772>>, <<70004387, 200658740>>, <<70100779, 86569768>>,
       <<70197158, 142081940>>, <<70293524, 260692268>>, <<70389878, 67518904>>, <<70486217, 261480156>>,
       <<70582543, 199377140>>, <<70678855, 43379168>>, <<70775151, 224154564>>, <<70871433, 98695132>>,
       <<70967699, 97801540>>, <<71063949, 115472324>>, <<71160183, 45776504>>, <<71256400, 51290792>>,
       <<71352600, 26230412>>, <<71448782, 133321704>>, <<71544946, 266932964>>, <<71641093, 53076140>>,
       <<71737220, 191585848>>, <<71833329, 40201952>>, <<71929418, 30490404>>, <<72025487, 57232200>>,
       <<72121536, 15296004>>, <<72217564, 68075288>>, <<72313571, 110619140>>, <<72409557, 38069396>>,
       <<72505521, 14097796>>, <<72601462, 202472212>>, <<72697381, 230187424>>, <<72793277, 261208612>>,
       <<72889150, 191166688>>, <<72984999, 184230852>>, <<73080824, 136239392>>, <<73176624, 211572212>>,
       <<73272400, 37846168>>, <<73368150, 48093988>>, <<73463874, 138588652>>, <<73559572, 205715948>>,
       <<73655244, 145976136>>, <<73750889, 124421032>>, <<73846507, 37784744>>, <<73942097, 51356220>>,
       <<74037659, 62109960>>, <<74133192, 235578564>>, <<74228697, 200547976>>, <<74324173, 122800948>>,
       <<74419619, 168247712>>, <<74515035, 234492168>>, <<74610421, 219268916>>, <<74705777, 20444872>>,
       <<74801101, 72891776>>, <<74896394, 6310504>>, <<74991654, 255845380>>, <<75086883, 183037592>>,
       <<75182079, 223310392>>, <<75277243, 6922488>>, <<75372372, 238017808>>, <<75467469, 10272488>>,
       <<75562531, 28121936>>, <<75657558, 190843232>>, <<75752551, 129427636>>, <<75847509, 11888468>>,
       <<75942431, 6391748>>, <<76037317, 12822264>>, <<76132166, 199656036>>, <<76226979, 198655424>>,
       <<76321755, 178612528>>, <<76416494, 40044268>>, <<76511194, 220500324>>, <<76605857, 83951840>>,
       <<76700481, 68276612>>, <<76795066, 74647820>>, <<76889612, 4406428>>, <<76984118, 27498112>>,
       <<77078584, 45603848>>, <<77173009, 229012248>>, <<77267394, 211314696>>, <<77361738, 163148588>>,
       <<77456040, 255327908>>, <<77550301, 121973728>>, <<77644519, 202692940>>, <<77738695, 131966952>>,
       <<77832828, 81330392>>, <<77926917, 222501608>>, <<78020963, 190513184>>, <<78114965, 157455156>>,
       <<78208923, 27170052>>, <<78302835, 240560660>>, <<78396703, 164978668>>, <<78490525, 241709704>>,
       <<78584302, 106926520>>, <<78678032, 202303080>>, <<78771716, 164403212>>, <<78865353, 166859228>>,
       <<78958943, 115066908>>, <<79052485, 183057760>>, <<79145980, 8193984>>, <<79239426, 33347076>>,
       <<79332823, 164721892>>, <<79426172, 40293400>>, <<79519471, 103549816>>, <<79612720, 261316636>>,
       <<79705920, 152193384>>, <<79799069, 220296720>>, <<79892168, 104648996>>, <<79985215, 249792260>>,
       <<80078212, 26741336>>, <<80171156, 148904180>>, <<80264048, 256164056>>, <<80356888, 257058028>>,
       <<80449676, 60342768>>, <<80542410, 111866700>>, <<80635091, 52393932>>, <<80727718, 59782780>>,
       <<80820291, 43680572>>, <<80912809, 182395812>>, <<81005273, 117592964>>, <<81097682, 28035504>>,
       <<81190035, 92716160>>, <<81282332, 222422648>>, <<81374574, 59738840>>, <<81466759, 52787740>>,
       <<81558887, 113055364>>, <<81650958, 152262792>>, <<81742972, 82367300>>, <<81834928, 83998960>>,
       <<81926826, 69590864>>, <<82018665, 220251092>>, <<82110446, 180457528>>, <<82202168, 131800728>>,
       <<82293830, 256114128>>, <<82385433, 198604200>>, <<82476976, 141593372>>, <<82568458, 267650164>>,
       <<82659880, 222719360>>, <<82751241, 189864860>>, <<82842541, 83964376>>, <<82933779, 88581388>>,
       <<83024955, 119095232>>, <<83116069, 91137620>>, <<83207120, 189029072>>, <<83298109, 60473580>>,
       <<83389034, 158736868>>, <<83479896, 132034672>>, <<83570694, 165710976>>, <<83661428, 176932636>>,
       <<83752098, 83125792>>, <<83842703, 70412296>>, <<83933243, 56739736>>, <<84023717, 228753304>>,
       <<84114126, 236490356>>, <<84204469, 267123156>>, <<84294746, 239653444>>, <<84384957, 73348792>>,
       <<84475100, 224614408>>, <<84565177, 76381320>>, <<84655186, 85590892>>, <<84745127, 172582968>>,
       <<84835000, 257967648>>, <<84924805, 262626172>>, <<85014542, 107711756>>, <<85104209, 251521336>>,
       <<85193808, 78883708>>, <<85283337, 48643976>>, <<85372796, 83051624>>, <<85462185, 104632292>>,
       <<85551504, 36188520>>, <<85640752, 69236044>>, <<85729929, 127133644>>, <<85819035, 133519396>>,
       <<85908070, 12311440>>, <<85997032, 224579648>>, <<86085923, 157933648>>, <<86174742, 5571760>>,
       <<86263487, 229410824>>, <<86352160, 217909652>>, <<86440760, 165117932>>, <<86529286, 265370580>>,
       <<86617739, 176417532>>, <<86706118, 93166256>>, <<86794422, 210811552>>, <<86882652, 187965288>>,
       <<86970807, 220398912>>, <<87058887, 235737748>>, <<87146892, 161897096>>, <<87234821, 195518356>>,
       <<87322674, 265098724>>, <<87410452, 30991840>>, <<87498152, 227585688>>, <<87585776, 247384104>>,
       <<87673324, 20055560>>, <<87760794, 12433776>>, <<87848186, 154776488>>, <<87935501, 109201444>>,
       <<88022738, 74993412>>, <<88109896, 251733752>>, <<88196977, 33994664>>, <<88283978, 158823344>>,
       <<88370901, 21387992>>, <<88457744, 90897404>>, <<88544508, 31553352>>, <<88631192, 44728328>>,
       <<88717796, 63659708>>, <<88804320, 21885708>>, <<88890763, 121681292>>, <<88977126, 28752344>>,
       <<89063407, 214413340>>, <<89149608, 76539692>>, <<89235727, 87051808>>, <<89321764, 181302812>>,
       <<89407720, 26514444>>, <<89493593, 95519292>>, <<89579384, 56148508>>, <<89665092, 113409484>>,
       <<89750717, 204179880>>, <<89836259, 265643496>>, <<89921718, 235290636>>, <<90007094, 50918512>>,
       <<90092385, 187502524>>, <<90177593, 46583860>>, <<90262716, 103753532>>, <<90347755, 29604520>>,
       <<90432709, 31909384>>, <<90517578, 50314224>>, <<90602362, 24774480>>, <<90687060, 163990680>>,
       <<90771673, 140102388>>, <<90856200, 162430316>>, <<90940641, 172170272>>, <<91024996, 110828864>>,
       <<91109264, 188659248>>, <<91193446, 79355024>>, <<91277540, 262227776>>, <<91361548, 143159128>>,
       <<91445468, 202084616>>, <<91529301, 113945768>>, <<91613046, 90867572>>, <<91696703, 76852340>>,
       <<91780272, 16215384>>, <<91863752, 122020652>>, <<91947144, 70774576>>, <<92030447, 76168064>>,
       <<92113661, 83770316>>, <<92196786, 39464460>>, <<92279821, 157883152>>, <<92362767, 117102380>>,
       <<92445623, 132383420>>, <<92528389, 150866616>>, <<92611065, 120006968>>, <<92693650, 256009696>>,
       <<92776145, 238524016>>, <<92858550, 15949588>>, <<92940863, 73872076>>, <<93023085, 92885984>>,
       <<93105216, 22336536>>, <<93187255, 80319776>>, <<93269202, 216811696>>, <<93351058, 113668344>>,
       <<93432821, 258367640>>, <<93514493, 64961300>>, <<93596072, 21558464>>, <<93677558, 79713028>>,
       <<93758951, 191294576>>, <<93840252, 40052908>>, <<93921459, 115359932>>, <<94002573, 101596868>>,
       <<94083593, 220331568>>, <<94164520, 156576656>>, <<94245353, 132531348>>, <<94326092, 102275028>>,
       <<94406737, 20202708>>, <<94487287, 109460412>>, <<94567743, 56638776>>, <<94648104, 85514796>>,
       <<94728370, 151745412>>, <<94808541, 211302904>>, <<94888617, 220474780>>, <<94968598, 135863728>>,
       <<95048483, 182822952>>, <<95128273, 50149712>>, <<95207966, 232262516>>, <<95287564, 150152780>>,
       <<95367066, 30432936>>, <<95446471, 100029912>>, <<95525780, 49314092>>, <<95604992, 105841008>>,
       <<95684107, 229044808>>, <<95763126, 110238120>>, <<95842047, 246353700>>, <<95920872, 60896064>>,
       <<95999599, 51425004>>, <<96078228, 178942596>>, <<96156760, 136328556>>, <<96235194, 153646328>>,
       <<96313530, 192836584>>, <<96391768, 216152424>>, <<96469908, 186159180>>, <<96547950, 65734192>>,
       <<96625893, 86502040>>, <<96703737, 211963400>>, <<96781483, 137494780>>, <<96859130, 95654672>>,
       <<96936678, 50876900>>, <<97014126, 236341308>>, <<97091476, 80231628>>, <<97168726, 84783432>>,
       <<97245876, 215671100>>, <<97322927, 170442996>>, <<97399878, 183827536>>, <<97476729, 222426544>>,
       <<97553480, 253150372>>, <<97630131, 243217632>>, <<97706682, 160154832>>, <<97783132, 240231540>>,
       <<97859482, 183153684>>, <<97935731, 225805040>>, <<98011880, 68505060>>, <<98087927, 217185820>>,
       <<98163874, 104343460>>, <<98239719, 236521504>>, <<98315464, 46826788>>, <<98391107, 42412816>>,
       <<98466648, 193866596>>, <<98542088, 203643724>>, <<98617427, 42938924>>, <<98692663, 220121104>>,
       <<98767798, 170120208>>, <<98842831, 133475036>>, <<98917762, 82590980>>, <<98992590, 258610536>>,
       <<99067317, 97671064>>, <<99141941, 109952540>>, <<99216463, 628952>>, <<99290882, 12045128>>,
       <<99365198, 118409940>>, <<99439412, 25795828>>, <<99513522, 245880220>>, <<99587530, 216896836>>,
       <<99661435, 182683456>>, <<99735237, 118939592>>, <<99808936, 1661492>>, <<99882531, 75577120>>,
       <<99956023, 48839296>>, <<100029411, 166767040>>, <<100102696, 138103240>>, <<100175877, 208756000>>,
       <<100248955, 88056296>>, <<100321929, 22499296>>, <<100394798, 258872932>>, <<100467564, 238951028>>,
       <<100540226, 210105500>>, <<100612784, 151564004>>, <<100685238, 42844880>>, <<100757587, 132192044>>,
       <<100829832, 131268088>>, <<100901973, 20460128>>, <<100974009, 48879200>>, <<101045940, 197488860>>,
       <<101117767, 179104552>>, <<101189489, 243699480>>, <<101261107, 104662176>>, <<101332620, 12537744>>,
       <<101404027, 218156416>>, <<101475330, 167326548>>, <<101546528, 111446812>>, <<101617621, 33763768>>,
       <<101688608, 186242168>>, <<101759491, 15822548>>, <<101830268, 43468824>>, <<101900939, 253554940>>,
       <<101971506, 93864244>>
    >>

\* expected_score for ratings 200 points shifted by one half point
expected_score_float_shifted(rating_a, rating_b) ==
    ExpectedBits[(rating_a - rating_b) + 402]

\* ratings in half points; the double returned
expected_score_float(rating_a, rating_b) ==
    ExpectedBits[(rating_a - rating_b) + 401]

\* x + y - 1 for two such doubles, exactly, in units of 2^-55; a sum further
\* than 2^-27 from 1 gives -Limb or Limb
SumDefect(x, y) ==
    LET high == x[1] + y[1] - OneLimbs
    IN  IF high < -1 THEN 0 - Limb
        ELSE IF high > 0 THEN Limb
        ELSE high * Limb + (x[2] + y[2])

\* the double x + y is 1.0: the exact sum rounds to 1.0 (ties to even) when
\* it lies in [1 - 2^-54, 1 + 2^-53]
FloatSumIsOne(x, y) ==
    SumDefect(x, y) \in -2..4

(* ---------------------------- Match.match_score ------------------------- *)

\* a score that is None
NoScore == "None"

NotAvailable == <<"N/A">>

\* 'and' in place of 'or'
match_score_and(winning_team, team1_score, team2_score) ==
    LET winner_score == IF winning_team = 1 THEN team1_score ELSE team2_score
        loser_score  == IF 3 - winning_team = 1 THEN team1_score ELSE team2_score
    IN  IF winner_score = NoScore /\ loser_score = NoScore
        THEN NotAvailable
        ELSE <<winner_score, " - ", loser_score>>

\* the formatted string, as the sequence of its parts
match_score(winning_team, team1_score, team2_score) ==
    LET winner_score == IF winning_team = 1 THEN team1_score ELSE team2_score
        loser_score  == IF 3 - winning_team = 1 THEN team1_score ELSE team2_score
    IN  IF winner_score = NoScore \/ loser_score = NoScore
        THEN NotAvailable
        ELSE <<winner_score, " - ", loser_score>>

(* ------------------------- EloCalculator.__init__ ----------------------- *)

ErrKFactor == "K-factor must be a positive integer"

\* the check with < in place of <=
EloCalculatorInitStrict(k) ==
    IF k < 0 THEN [ err |-> ErrKFactor, k_factor |-> 0 ]
    ELSE [ err |-> "none", k_factor |-> k ]

\* the error raised, or the k_factor the object stores
EloCalculatorInit(k) ==
    IF k <= 0 THEN [ err |-> ErrKFactor, k_factor |-> 0 ]
    ELSE [ err |-> "none", k_factor |-> k ]

(* ------------------------------- models -------------------------------- *)

\* get_by_name / a local holding None
NoPlayer ==
    [ player_id |-> 0, name |-> "", current_elo |-> 0,
      games_played |-> 0, wins |-> 0, losses |-> 0 ]

Player(player_id, name, current_elo, games_played, wins, losses) ==
    [ player_id |-> player_id, name |-> name, current_elo |-> current_elo,
      games_played |-> games_played, wins |-> wins, losses |-> losses ]

(* ----------------------------- repositories ---------------------------- *)

\* SupabasePlayerRepository.create: the store assigns the next player_id
PlayerRepoCreate(rows, player) ==
    Append(rows, [player EXCEPT !.player_id = Len(rows) + 1])

\* SupabasePlayerRepository.get_by_name: the rows whose name is equal; the
\* caller takes result.data[0], any of them, or None when there is none
PlayerRepoGetByName(rows, name) ==
    LET found == { rows[j] : j \in { n \in DOMAIN rows : rows[n].name = name } }
    IN  IF found = {} THEN {NoPlayer} ELSE found

\* an update without the filter on player_id
PlayerRepoUpdateEveryRow(rows, player) ==
    [ j \in DOMAIN rows |->
        [ rows[j] EXCEPT !.current_elo  = player.current_elo,
                         !.games_played = player.games_played,
                         !.wins         = player.wins,
                         !.losses       = player.losses ] ]

\* an update that leaves current_elo out
PlayerRepoUpdateNoElo(rows, player) ==
    [ j \in DOMAIN rows |->
        IF rows[j].player_id = player.player_id
        THEN [ rows[j] EXCEPT !.games_played = player.games_played,
                              !.wins         = player.wins,
                              !.losses       = player.losses ]
        ELSE rows[j] ]

\* SupabasePlayerRepository.update: writes the four statistics columns of
\* the row with the player's id, whatever the row holds now
PlayerRepoUpdate(rows, player) ==
    [ j \in DOMAIN rows |->
        IF rows[j].player_id = player.player_id
        THEN [ rows[j] EXCEPT !.current_elo  = player.current_elo,
                              !.games_played = player.games_played,
                              !.wins         = player.wins,
                              !.losses       = player.losses ]
        ELSE rows[j] ]

\* SupabaseMatchRepository.create: the store assigns the next match_id
MatchRepoCreate(rows, match) ==
    Append(rows, [match EXCEPT !.match_id = Len(rows) + 1])

\* an upsert keyed by player: the player's earlier row is replaced
HistoryRepoUpsert(rows, rating_change) ==
    IF \E j \in DOMAIN rows : rows[j].player_id = rating_change.player_id
    THEN [ j \in DOMAIN rows |->
             IF rows[j].player_id = rating_change.player_id
             THEN [rating_change EXCEPT !.history_id = j] ELSE rows[j] ]
    ELSE Append(rows, [rating_change EXCEPT !.history_id = Len(rows) + 1])

\* SupabaseRatingHistoryRepository.create: the store assigns the next history_id
HistoryRepoCreate(rows, rating_change) ==
    Append(rows, [rating_change EXCEPT !.history_id = Len(rows) + 1])

\* the rows of a table in any order the ORDER BY current_elo DESC allows:
\* a higher rating first, rows of equal rating in an order the store picks
RECURSIVE OrderedByEloDesc(_)
OrderedByEloDesc(rows) ==
    IF rows = {} THEN { <<>> }
    ELSE UNION { { <<r>> \o rest : rest \in OrderedByEloDesc(rows \ {r}) } :
                 r \in { x \in rows : \A y \in rows : x.current_elo >= y.current_elo } }

\* SupabasePlayerRepository.get_all: the results the query can give
PlayerRepoGetAll(rows) == OrderedByEloDesc({ rows[j] : j \in DOMAIN rows })

RECURSIVE OldestFirst(_, _, _)
\* the rows of a player among the first n rows, oldest first
OldestFirst(rows, player_id, n) ==
    IF n = 0 THEN <<>>
    ELSE IF rows[n].player_id = player_id
         THEN Append(OldestFirst(rows, player_id, n - 1), rows[n])
         ELSE OldestFirst(rows, player_id, n - 1)

RECURSIVE NewestFirst(_, _, _)
\* the rows of a player among the first n rows by recorded_at descending; the store
\* sets recorded_at at the insert, so a later row has a later recorded_at
NewestFirst(rows, player_id, n) ==
    IF n = 0 THEN <<>>
    ELSE IF rows[n].player_id = player_id
         THEN <<rows[n]>> \o NewestFirst(rows, player_id, n - 1)
         ELSE NewestFirst(rows, player_id, n - 1)

\* rows[:limit], the LIMIT of a query
FirstRows(rows, limit) ==
    SubSeq(rows, 1, IF limit < Len(rows) THEN limit ELSE Len(rows))

\* get_by_player with the rows in ascending order of recorded_at
HistoryRepoGetByPlayerAscending(rows, player_id, limit) ==
    FirstRows(OldestFirst(rows, player_id, Len(rows)), limit)

\* SupabaseRatingHistoryRepository.get_by_player
HistoryRepoGetByPlayer(rows, player_id, limit) ==
    FirstRows(NewestFirst(rows, player_id, Len(rows)), limit)

(* ------------------------------- service ------------------------------- *)

NoOutcome ==
    [ team1_rating |-> 0, team2_rating |-> 0, team1_change |-> 0, team2_change |-> 0 ]

EmptyStore == [ players |-> <<>>, matches |-> <<>>, history |-> <<>> ]

\* a worker with no call: pc "idle"; a call that returned: "done"; raised: "raised"
IdleWorker ==
    [ op |-> "none", pc |-> "idle", err |-> "none",
      name |-> "", names |-> <<>>, winning_team |-> 0,
      p |-> <<NoPlayer, NoPlayer, NoPlayer, NoPlayer>>, missing |-> <<>>,
      lookups |-> 0,
      outcome |-> NoOutcome, match_id |-> 0, i |-> 0,
      old_rating |-> 0, new_rating |-> 0,
      pre |-> EmptyStore ]

Returned == {"idle", "done", "raised"}

\* the call of worker `me` ends (it returns or raises): its locals are gone,
\* what stays is the call, its result and the store it started from
Ended(me, pc, err) ==
    [ IdleWorker EXCEPT !.op = me.op, !.name = me.name, !.names = me.names,
                        !.winning_team = me.winning_team, !.pre = me.pre,
                        !.match_id = me.match_id, !.missing = me.missing,
                        !.lookups = me.lookups,
                        !.pc = pc, !.err = err ]

\* the store as a call finds it; kept only for a call that starts while no
\* other call is in progress
Snapshot(w) ==
    IF \A v \in Workers \ {w} : workers[v].pc \in Returned
    THEN [ players |-> players, matches |-> matches, history |-> history ]
    ELSE EmptyStore

ErrWinningTeam  == "winning_team must be 1 or 2"
ErrDuplicate    == "A player cannot appear twice in the same match"
ErrNotFound     == "Players not found"
ErrExists       == "already exists"
ErrPersistence  == "persistence"

Range(s) == { s[j] : j \in DOMAIN s }

\* the input checks with the duplicate check first
InputErrorDuplicateFirst(names, winning_team) ==
    IF Cardinality(Range(names)) < 4 THEN ErrDuplicate
    ELSE IF winning_team \notin {1, 2} THEN ErrWinningTeam
    ELSE "none"

\* the input checks without the check for a name given twice
InputErrorNoDuplicateCheck(names, winning_team) ==
    IF winning_team \notin {1, 2} THEN ErrWinningTeam ELSE "none"

\* record_match, the checks made before any persistence call: the error
\* raised, or "none"
InputError(names, winning_team) ==
    IF winning_team \notin {1, 2} THEN ErrWinningTeam
    ELSE IF Cardinality(Range(names)) < 4 THEN ErrDuplicate
    ELSE "none"

\* only the first name whose lookup gave None
MissingNamesFirstOnly(names, found) ==
    LET idx == SelectSeq(<<1, 2, 3, 4>>, LAMBDA j : found[j] = NoPlayer)
    IN  IF idx = <<>> THEN <<>> ELSE <<names[idx[1]]>>

\* record_match: the names whose lookup gave None, in slot order
MissingNames(names, found) ==
    LET idx == SelectSeq(<<1, 2, 3, 4>>, LAMBDA j : found[j] = NoPlayer)
    IN  [ n \in 1..Len(idx) |-> names[idx[n]] ]

\* record_match: the Match object built from the players read
NewMatch(p, outcome, winning_team) ==
    [ match_id |-> 0,
      team1_player1_id |-> p[1].player_id,
      team1_player2_id |-> p[2].player_id,
      team2_player1_id |-> p[3].player_id,
      team2_player2_id |-> p[4].player_id,
      team1_avg_rating_before |-> PyRoundHalves(outcome.team1_rating),
      team2_avg_rating_before |-> PyRoundHalves(outcome.team2_rating),
      winning_team |-> winning_team ]

\* record_match: (rating_change, won) of slot i in players_to_update
SlotChange(outcome, i) ==
    IF i <= 2 THEN outcome.team1_change ELSE outcome.team2_change

\* every slot takes team 1's result
SlotWonTeam1(winning_team, i) ==
    winning_team = 1

SlotWon(winning_team, i) ==
    IF i <= 2 THEN winning_team = 1 ELSE ~(winning_team = 1)

\* every player of the match gets a win
UpdatedPlayerAllWin(player, rating_change, won) ==
    [ player EXCEPT
        !.current_elo  = PyRoundSum(player.current_elo, rating_change),
        !.games_played = player.games_played + 1,
        !.wins         = player.wins + 1 ]

\* the statistics changed without games_played
UpdatedPlayerNoGames(player, rating_change, won) ==
    [ player EXCEPT
        !.current_elo  = PyRoundSum(player.current_elo, rating_change),
        !.wins         = IF won THEN player.wins + 1 ELSE player.wins,
        !.losses       = IF won THEN player.losses ELSE player.losses + 1 ]

\* record_match, the loop body up to the update: the player object after
\* its rating and statistics are changed
UpdatedPlayer(player, rating_change, won) ==
    [ player EXCEPT
        !.current_elo  = PyRoundSum(player.current_elo, rating_change),
        !.games_played = player.games_played + 1,
        !.wins         = IF won THEN player.wins + 1 ELSE player.wins,
        !.losses       = IF won THEN player.losses ELSE player.losses + 1 ]

\* player_id and match_id passed in each other's place
NewRatingChangeSwapped(player_id, match_id, old_rating, new_rating, rating_change) ==
    [ history_id |-> 0, player_id |-> match_id, match_id |-> player_id,
      old_rating |-> old_rating, new_rating |-> new_rating,
      rating_change |-> PyRoundSum(0, rating_change) ]

\* record_match: the RatingChange object of one player
NewRatingChange(player_id, match_id, old_rating, new_rating, rating_change) ==
    [ history_id |-> 0, player_id |-> player_id, match_id |-> match_id,
      old_rating |-> old_rating, new_rating |-> new_rating,
      rating_change |-> PyRoundSum(0, rating_change) ]

\* no function without effect on the store was called
NoProbe == [ fn |-> "none", args |-> <<>>, result |-> <<>> ]

(* ------------------------------- actions ------------------------------- *)

\* record_match is called: the input checks, before any persistence call
RecordMatchCall(w, lim, names, winning_team) ==
    /\ workers[w].pc \in Returned
    /\ calls < lim
    /\ calls' = calls + 1
    /\ LET err  == InputError(names, winning_team)
           base == [ IdleWorker EXCEPT !.op = "record_match", !.names = names,
                                       !.winning_team = winning_team, !.pre = Snapshot(w) ]
       IN  workers' = [ workers EXCEPT ![w] =
               IF err # "none"
               THEN Ended(base, "raised", err)
               ELSE [ base EXCEPT !.pc = "get", !.i = 1 ] ]
    /\ UNCHANGED <<players, matches, history, k_factor, probe>>

\* record_match: one get_by_name; after the fourth, the check that all four
\* exist and the rating computation
RM_GetByName(w) ==
    LET me == workers[w] IN
    /\ me.pc = "get"
    /\ \E row \in PlayerRepoGetByName(players, me.names[me.i]) :
         LET p       == [ me.p EXCEPT ![me.i] = row ]
             missing == MissingNames(me.names, p)
             n       == me.lookups + 1
         IN  workers' = [ workers EXCEPT ![w] =
                 IF me.i < 4
                 THEN [ me EXCEPT !.p = p, !.i = me.i + 1, !.lookups = n ]
                 ELSE IF missing # <<>>
                 THEN Ended([ me EXCEPT !.missing = missing, !.lookups = n ],
                            "raised", ErrNotFound)
                 ELSE [ me EXCEPT !.p = p, !.pc = "create_match", !.lookups = n,
                                  !.outcome = calculate_match_outcome(
                                      k_factor, p[1].current_elo, p[2].current_elo,
                                      p[3].current_elo, p[4].current_elo,
                                      me.winning_team = 1) ] ]
    /\ UNCHANGED <<players, matches, history, k_factor, calls, probe>>

\* the Match object is built and given an id but never inserted
RM_CreateMatchNotInserted(w) ==
    LET me == workers[w] IN
    /\ me.pc = "create_match"
    /\ workers' = [ workers EXCEPT ![w] =
           [ me EXCEPT !.match_id = Len(matches) + 1, !.pc = "update", !.i = 1 ] ]
    /\ UNCHANGED <<players, matches, history, k_factor, calls, probe>>

\* record_match: match_repo.create
RM_CreateMatch(w) ==
    LET me == workers[w] IN
    /\ me.pc = "create_match"
    /\ matches' = MatchRepoCreate(matches, NewMatch(me.p, me.outcome, me.winning_team))
    /\ workers' = [ workers EXCEPT ![w] =
           [ me EXCEPT !.match_id = Len(matches) + 1, !.pc = "update", !.i = 1 ] ]
    /\ UNCHANGED <<players, history, k_factor, calls, probe>>

\* record_match, loop: the player object is changed and player_repo.update
RM_UpdatePlayer(w) ==
    LET me      == workers[w]
        player  == me.p[me.i]
        updated == UpdatedPlayer(player, SlotChange(me.outcome, me.i),
                                 SlotWon(me.winning_team, me.i))
    IN
    /\ me.pc = "update"
    /\ players' = PlayerRepoUpdate(players, updated)
    /\ workers' = [ workers EXCEPT ![w] =
           [ me EXCEPT !.p = [ me.p EXCEPT ![me.i] = updated ],
                       !.old_rating = player.current_elo,
                       !.new_rating = updated.current_elo,
                       !.pc = "history" ] ]
    /\ UNCHANGED <<matches, history, k_factor, calls, probe>>

\* record_match, loop: history_repo.create; after the fourth, return
RM_CreateHistory(w) ==
    LET me == workers[w] IN
    /\ me.pc = "history"
    /\ history' = HistoryRepoCreate(history,
           NewRatingChange(me.p[me.i].player_id, me.match_id, me.old_rating,
                           me.new_rating, SlotChange(me.outcome, me.i)))
    /\ workers' = [ workers EXCEPT ![w] =
           IF me.i < 4
           THEN [ me EXCEPT !.i = me.i + 1, !.pc = "update" ]
           ELSE Ended(me, "done", "none") ]
    /\ UNCHANGED <<players, matches, k_factor, calls, probe>>

\* add_player is called
AddPlayerCall(w, lim, name) ==
    /\ workers[w].pc \in Returned
    /\ calls < lim
    /\ calls' = calls + 1
    /\ workers' = [ workers EXCEPT ![w] =
           [ IdleWorker EXCEPT !.op = "add_player", !.name = name,
                               !.pc = "ap_get", !.pre = Snapshot(w) ] ]
    /\ UNCHANGED <<players, matches, history, k_factor, probe>>

\* add_player without the check that the name is free
AP_GetByNameNoCheck(w) ==
    LET me == workers[w] IN
    /\ me.pc = "ap_get"
    /\ workers' = [ workers EXCEPT ![w] = [ me EXCEPT !.pc = "ap_create" ] ]
    /\ UNCHANGED <<players, matches, history, k_factor, calls, probe>>

\* add_player: get_by_name and the check that the name is free
AP_GetByName(w) ==
    LET me == workers[w] IN
    /\ me.pc = "ap_get"
    /\ \E row \in PlayerRepoGetByName(players, me.name) :
         workers' = [ workers EXCEPT ![w] =
             IF row # NoPlayer
             THEN Ended(me, "raised", ErrExists)
             ELSE [ me EXCEPT !.pc = "ap_create" ] ]
    /\ UNCHANGED <<players, matches, history, k_factor, calls, probe>>

\* add_player: player_repo.create
AP_Create(w) ==
    LET me == workers[w] IN
    /\ me.pc = "ap_create"
    /\ players' = PlayerRepoCreate(players, Player(0, me.name, InitialRating, 0, 0, 0))
    /\ workers' = [ workers EXCEPT ![w] = Ended(me, "done", "none") ]
    /\ UNCHANGED <<matches, history, k_factor, calls, probe>>

\* a persistence call raises: the exception leaves the service call
PersistenceFailure(w) ==
    LET me == workers[w] IN
    /\ me.pc \in {"get", "create_match", "update", "history", "ap_get", "ap_create"}
    /\ workers' = [ workers EXCEPT ![w] = Ended(me, "raised", ErrPersistence) ]
    /\ UNCHANGED <<players, matches, history, k_factor, calls, probe>>

(* ---------------------------- specifications --------------------------- *)

Init ==
    /\ players = [ j \in DOMAIN SeedNames |-> Player(j, SeedNames[j], InitialRating, 0, 0, 0) ]
    /\ matches = <<>>
    /\ history = <<>>
    /\ k_factor \in KFactors
    /\ workers = [ w \in Workers |-> IdleWorker ]
    /\ calls = 0
    /\ probe = NoProbe

\* two workers, their persistence calls interleaved, any of which may raise
Next ==
    \E w \in Workers :
        \/ \E in \in ConcMatchInputs : RecordMatchCall(w, MaxConcCalls, in[1], in[2])
        \/ RM_GetByName(w)
        \/ RM_CreateMatch(w)
        \/ RM_UpdatePlayer(w)
        \/ RM_CreateHistory(w)
        \/ \E name \in AddNames : AddPlayerCall(w, MaxConcCalls, name)
        \/ AP_GetByName(w)
        \/ AP_Create(w)
        \/ PersistenceFailure(w)

Spec == Init /\ [][Next]_vars

\* one worker, one call after the other, no persistence call raises
SeqNext ==
    \/ \E in \in MatchInputs : RecordMatchCall(1, MaxCalls, in[1], in[2])
    \/ RM_GetByName(1)
    \/ RM_CreateMatch(1)
    \/ RM_UpdatePlayer(1)
    \/ RM_CreateHistory(1)
    \/ \E name \in AddNames : AddPlayerCall(1, MaxCalls, name)
    \/ AP_GetByName(1)
    \/ AP_Create(1)

SeqSpec == Init /\ [][SeqNext]_vars

\* one worker, one call after the other, the arguments of record_match in order
LedgerNext ==
    \/ \E in \in LedgerInputs : RecordMatchCall(1, MaxCalls, in[1], in[2])
    \/ RM_GetByName(1)
    \/ RM_CreateMatch(1)
    \/ RM_UpdatePlayer(1)
    \/ RM_CreateHistory(1)
    \/ \E name \in AddNames : AddPlayerCall(1, MaxCalls, name)
    \/ AP_GetByName(1)
    \/ AP_Create(1)

LedgerSpec == Init /\ [][LedgerNext]_vars

(* ------------------- functions without effect on the store -------------- *)

\* EloCalculator(k_factor=k)
Construct(k) ==
    LET r == EloCalculatorInit(k) IN
    /\ probe' = [ fn |-> "EloCalculator", args |-> <<k>>, result |-> <<r.err>> ]
    /\ k_factor' = IF r.err = "none" THEN r.k_factor ELSE k_factor
    /\ UNCHANGED <<players, matches, history, workers, calls>>

\* expected_score(rating_a, rating_b), ratings in half points
ExpectedScore(rating_a, rating_b) ==
    /\ probe' = [ fn |-> "expected_score", args |-> <<rating_a, rating_b>>,
                  result |-> expected_score_float(rating_a, rating_b) ]
    /\ UNCHANGED <<players, matches, history, k_factor, workers, calls>>

\* Match(...).match_score
MatchScore(winning_team, team1_score, team2_score) ==
    /\ probe' = [ fn |-> "match_score",
                  args |-> <<winning_team, team1_score, team2_score>>,
                  result |-> match_score(winning_team, team1_score, team2_score) ]
    /\ UNCHANGED <<players, matches, history, k_factor, workers, calls>>

PureInit ==
    /\ players = [ j \in DOMAIN SeedNames |-> Player(j, SeedNames[j], InitialRating, 0, 0, 0) ]
    /\ matches = <<>>
    /\ history = <<>>
    /\ k_factor = 0
    /\ workers = [ w \in Workers |-> IdleWorker ]
    /\ calls = 0
    /\ probe = NoProbe

PureNext ==
    \/ \E k \in KArguments : Construct(k)
    \/ \E d \in (0 - MaxGap)..MaxGap, b \in {0, 1} :
           ExpectedScore(ProbeBase + d, IF b = 0 THEN ProbeBase ELSE ProbeBase + d)
    \/ \E t \in {1, 2}, s1 \in ScoreValues, s2 \in ScoreValues : MatchScore(t, s1, s2)

PureSpec == PureInit /\ [][PureNext]_vars

(* ------------------------------- queries ------------------------------ *)

ErrPlayerNotFound == "Player not found"

\* get_player_history(name, limit), called between two calls that write
GetPlayerHistory(name, limit) ==
    /\ workers[1].pc \in Returned
    /\ \E player \in PlayerRepoGetByName(players, name) :
         probe' = [ fn |-> "get_player_history", args |-> <<name, limit>>,
                    result |->
                        IF player = NoPlayer
                        THEN [ err |-> ErrPlayerNotFound, rows |-> <<>> ]
                        ELSE [ err |-> "none",
                               rows |-> HistoryRepoGetByPlayer(history, player.player_id, limit) ] ]
    /\ UNCHANGED <<players, matches, history, k_factor, workers, calls>>

\* get_rankings(limit), called between two calls that write
GetRankings(limit) ==
    /\ workers[1].pc \in Returned
    /\ \E all_players \in PlayerRepoGetAll(players) :
         probe' = [ fn |-> "get_rankings", args |-> <<limit>>,
                    result |-> FirstRows(all_players, limit) ]
    /\ UNCHANGED <<players, matches, history, k_factor, workers, calls>>

\* the calls of SeqSpec, then one query on the store they left
QueryNext ==
    \/ probe = NoProbe /\ \E in \in MatchInputs : RecordMatchCall(1, MaxQueryCalls, in[1], in[2])
    \/ probe = NoProbe /\ RM_GetByName(1)
    \/ probe = NoProbe /\ RM_CreateMatch(1)
    \/ probe = NoProbe /\ RM_UpdatePlayer(1)
    \/ probe = NoProbe /\ RM_CreateHistory(1)
    \/ probe = NoProbe /\ \E name \in AddNames : AddPlayerCall(1, MaxQueryCalls, name)
    \/ probe = NoProbe /\ AP_GetByName(1)
    \/ probe = NoProbe /\ AP_Create(1)
    \/ probe = NoProbe /\ \E name \in HistoryNames, limit \in HistoryLimits :
                              GetPlayerHistory(name, limit)
    \/ probe = NoProbe /\ \E limit \in RankingLimits : GetRankings(limit)

QuerySpec == Init /\ [][QueryNext]_vars

(* --------------------------- leaderboard page -------------------------- *)

RECURSIVE SortedByRecordedAt(_)
\* sorted(rating_history, key=lambda r: r.recorded_at): the store sets
\* recorded_at at the insert, so the order of history_id
SortedByRecordedAt(rows) ==
    IF rows = <<>> THEN <<>>
    ELSE LET first == CHOOSE j \in DOMAIN rows :
                          \A n \in DOMAIN rows : rows[j].history_id <= rows[n].history_id
             rest  == [ n \in 1..(Len(rows) - 1) |->
                          IF n < first THEN rows[n] ELSE rows[n + 1] ]
         IN  <<rows[first]>> \o SortedByRecordedAt(rest)

\* show_leaderboard: the "Rating" column of history_data, or nothing when
\* the player has no rating history
RatingChart(rating_history) ==
    IF rating_history = <<>> THEN <<>>
    ELSE LET sorted == SortedByRecordedAt(rating_history)
         IN  <<ChartSeedRating>> \o [ n \in DOMAIN sorted |-> sorted[n].new_rating ]

\* show_leaderboard with a player selected, between two calls that write
ShowLeaderboard(search_query) ==
    /\ workers[1].pc \in Returned
    /\ \E player \in PlayerRepoGetByName(players, search_query) :
         /\ player # NoPlayer
         /\ probe' = [ fn |-> "show_leaderboard", args |-> <<search_query>>,
                       result |-> RatingChart(
                           HistoryRepoGetByPlayer(history, player.player_id, DefaultLimit)) ]
    /\ UNCHANGED <<players, matches, history, k_factor, workers, calls>>

\* matches recorded one after the other, the winning team alternating (the
\* ratings stay within ExpectedTable), then the leaderboard page
ChartNext ==
    \/ probe = NoProbe /\ \E names \in ChartLineups :
                              RecordMatchCall(1, MaxChartCalls, names, 1 + (calls % 2))
    \/ probe = NoProbe /\ RM_GetByName(1)
    \/ probe = NoProbe /\ RM_CreateMatch(1)
    \/ probe = NoProbe /\ RM_UpdatePlayer(1)
    \/ probe = NoProbe /\ RM_CreateHistory(1)
    \/ probe = NoProbe /\ \E name \in ChartNames : ShowLeaderboard(name)

ChartSpec == Init /\ [][ChartNext]_vars

(* ------------------------------- claims ------------------------------- *)

ValidationErrors == {ErrWinningTeam, ErrDuplicate, ErrNotFound}

\* the rows of a players table with the given name (one row, names being unique)
RowOf(rows, name) == CHOOSE r \in PlayerRepoGetByName(rows, name) : TRUE

\* the history rows of a match / of a player, as positions
HistoryOfMatch(m) == { h \in DOMAIN history : history[h].match_id = m }

HistoryOfPlayer(id) == { h \in DOMAIN history : history[h].player_id = id }

RECURSIVE SumOver(_, _, _)
\* sum of f over the positions 1..n of rows that belong to player id
SumOver(f(_), id, n) ==
    IF n = 0 THEN 0
    ELSE SumOver(f, id, n - 1)
         + (IF history[n].player_id = id THEN f(history[n]) ELSE 0)

\* a record_match input that fails validation against the store the call found
FailsValidation(me) ==
    \/ me.winning_team # 1 /\ me.winning_team # 2
    \/ \E i, j \in 1..4 : i # j /\ me.names[i] = me.names[j]
    \/ \E j \in 1..4 : PlayerRepoGetByName(me.pre.players, me.names[j]) = {NoPlayer}

\* C1: a record_match call whose input fails validation (winning team not 1
\* or 2, a name given twice, a name of no player) never reaches a write: it
\* is still looking names up or has raised a validation error, and the
\* players, matches and history tables are as they were when it was called.
C1_ValidationWritesNothing ==
    \A w \in Workers :
        LET me == workers[w] IN
        (me.op = "record_match" /\ FailsValidation(me)) =>
            /\ me.pc \in {"get", "raised"}
            /\ (me.pc = "raised" => me.err \in ValidationErrors)
            /\ players = me.pre.players
            /\ matches = me.pre.matches
            /\ history = me.pre.history

\* C1 witness: a call raised for a missing name on a store that holds matches
C1_Witness ==
    \E w \in Workers :
        /\ workers[w].op = "record_match"
        /\ workers[w].pc = "raised"
        /\ workers[w].err = ErrNotFound
        /\ Len(matches) > 0

\* C2: a match row whose call is no longer running has its four history rows
\* (the match insert, the player updates and the history inserts take effect
\* together or not at all).
C2_MatchHasItsHistory ==
    \A m \in DOMAIN matches :
        (\A w \in Workers :
            ~(workers[w].pc \in {"update", "history"} /\ workers[w].match_id = m))
        => Cardinality(HistoryOfMatch(m)) = 4

\* every match row has its four history rows and no call is in progress
AllMatchesComplete ==
    /\ \A w \in Workers : workers[w].pc \in Returned
    /\ \A m \in DOMAIN matches : Cardinality(HistoryOfMatch(m)) = 4

RatingStep(h) == h.new_rating - h.old_rating

RecordedChange(h) == h.rating_change

\* C3: no lost update: once the interleaved record_match calls are over and
\* all of them completed, each player has one game per match played, wins +
\* losses likewise, and a rating that carries every match's change.
C3_NoLostUpdate ==
    AllMatchesComplete =>
        \A j \in DOMAIN players :
            /\ players[j].games_played = Cardinality(HistoryOfPlayer(players[j].player_id))
            /\ players[j].wins + players[j].losses
                   = Cardinality(HistoryOfPlayer(players[j].player_id))
            /\ players[j].current_elo
                   = InitialRating + SumOver(RatingStep, players[j].player_id, Len(history))

\* C4: every stored player has games_played = wins + losses, none negative.
C4_GamesAreWinsPlusLosses ==
    \A j \in DOMAIN players :
        /\ players[j].games_played = players[j].wins + players[j].losses
        /\ players[j].games_played >= 0
        /\ players[j].wins >= 0
        /\ players[j].losses >= 0

\* C4 witness: a player who has won a match and lost a match
C4_Witness ==
    \E j \in DOMAIN players : players[j].wins >= 1 /\ players[j].losses >= 1

\* C5: every history row has new_rating = old_rating + rating_change.
C5_NewIsOldPlusChange ==
    \A h \in DOMAIN history :
        history[h].new_rating = history[h].old_rating + history[h].rating_change

\* C6: after a sequence of recorded matches, the initial rating plus the
\* rating_change of a player's history rows, in order, is the player's
\* current_elo.
C6_ReplayGivesCurrentElo ==
    (\A w \in Workers : workers[w].pc \in Returned) =>
        \A j \in DOMAIN players :
            players[j].current_elo
                = InitialRating + SumOver(RecordedChange, players[j].player_id, Len(history))

\* C7: a record_match that returned added 1 to games_played of each of the
\* four players, 1 to wins and 0 to losses of the winning team's two, 1 to
\* losses and 0 to wins of the losing team's two.
C7_StatisticsOfTheFour ==
    \A w \in Workers :
        LET me == workers[w] IN
        (me.op = "record_match" /\ me.pc = "done") =>
            \A j \in 1..4 :
                LET before == RowOf(me.pre.players, me.names[j])
                    after  == RowOf(players, me.names[j])
                    team   == IF j <= 2 THEN 1 ELSE 2
                    won    == (team = me.winning_team)
                IN  /\ after.games_played = before.games_played + 1
                    /\ after.wins   = before.wins   + (IF won THEN 1 ELSE 0)
                    /\ after.losses = before.losses + (IF won THEN 0 ELSE 1)

\* C7 witness: a returned record_match that team 2 won, of players with games
C7_Witness ==
    \E w \in Workers :
        /\ workers[w].op = "record_match"
        /\ workers[w].pc = "done"
        /\ workers[w].winning_team = 2
        /\ Len(workers[w].pre.matches) > 0

\* C8: the two players of a team get the same change in a recorded match:
\* the same new_rating - old_rating and the same rating_change in their
\* history rows.
C8_TeamUniformChange ==
    \A w \in Workers :
        LET me == workers[w]
            n  == Len(me.pre.history)
        IN  (me.op = "record_match" /\ me.pc = "done") =>
                \A t \in {1, 3} :
                    /\ RatingStep(history[n + t]) = RatingStep(history[n + t + 1])
                    /\ history[n + t].rating_change = history[n + t + 1].rating_change

\* C9: a record_match that returned added one match row, the one it returns,
\* and four history rows, one per player of the match in slot order, each
\* with that match's id; the rows there before are unchanged.
C9_OneMatchFourHistoryRows ==
    \A w \in Workers :
        LET me == workers[w]
            nm == Len(me.pre.matches)
            nh == Len(me.pre.history)
        IN  (me.op = "record_match" /\ me.pc = "done") =>
                /\ Len(matches) = nm + 1
                /\ SubSeq(matches, 1, nm) = me.pre.matches
                /\ me.match_id = nm + 1
                /\ matches[nm + 1].match_id = me.match_id
                /\ Len(history) = nh + 4
                /\ SubSeq(history, 1, nh) = me.pre.history
                /\ \A j \in 1..4 :
                       /\ history[nh + j].match_id = me.match_id
                       /\ history[nh + j].player_id = RowOf(players, me.names[j]).player_id

\* C9 witness: a second match recorded
C9_Witness ==
    \E w \in Workers :
        /\ workers[w].op = "record_match"
        /\ workers[w].pc = "done"
        /\ Len(matches) = 2
        /\ Len(history) = 8

HasName(rows, name) == \E j \in DOMAIN rows : rows[j].name = name

\* C11: add_player(name) raises the duplicate-name error and leaves the
\* players table as it was when a player of that name exists; otherwise it
\* adds one row with that name, the initial rating and no games, wins or
\* losses; after sequential calls no two rows share a name.
C11_AddPlayer ==
    /\ \A i, j \in DOMAIN players : i # j => players[i].name # players[j].name
    /\ \A w \in Workers :
           LET me      == workers[w]
               existed == HasName(me.pre.players, me.name)
           IN  me.op = "add_player" =>
                   /\ existed => me.pc \in {"ap_get", "raised"} /\ players = me.pre.players
                   /\ me.pc = "raised" => existed /\ me.err = ErrExists
                   /\ me.pc = "done" =>
                          players = Append(me.pre.players,
                              [ player_id |-> Len(me.pre.players) + 1, name |-> me.name,
                                current_elo |-> InitialRating, games_played |-> 0,
                                wins |-> 0, losses |-> 0 ])

\* C11 witness: F was added after a match, and adding F again raised
C11_Witness ==
    \E w \in Workers :
        /\ workers[w].op = "add_player"
        /\ workers[w].name = "F"
        /\ workers[w].pc = "raised"
        /\ Len(players) = Len(SeedNames) + 1
        /\ Len(matches) > 0

\* the first rule a record_match input breaks, against the store it found
FirstViolation(me) ==
    IF me.winning_team # 1 /\ me.winning_team # 2 THEN ErrWinningTeam
    ELSE IF \E i, j \in 1..4 : i # j /\ me.names[i] = me.names[j] THEN ErrDuplicate
    ELSE IF \E j \in 1..4 : ~HasName(me.pre.players, me.names[j]) THEN ErrNotFound
    ELSE "none"

\* C12: the error record_match raises is that of the first broken rule in
\* the order winning team, duplicate name, missing name; a bad winning team
\* and a duplicate name are raised before any player lookup.
C12_FirstViolationReported ==
    \A w \in Workers :
        LET me == workers[w] IN
        (me.op = "record_match" /\ me.pc = "raised") =>
            /\ me.err = FirstViolation(me)
            /\ me.err \in {ErrWinningTeam, ErrDuplicate} => me.lookups = 0
            /\ me.err = ErrNotFound => me.lookups = 4

\* C12 witness: an input that breaks all three rules raised the first
C12_Witness ==
    \E w \in Workers :
        /\ workers[w].op = "record_match"
        /\ workers[w].pc = "raised"
        /\ workers[w].names = <<"G", "B", "G", "D">>
        /\ workers[w].winning_team = 3

RECURSIVE AbsentFrom(_, _, _)
\* the names of slots j..4 with no row in rows, in slot order
AbsentFrom(names, rows, j) ==
    IF j > 4 THEN <<>>
    ELSE (IF HasName(rows, names[j]) THEN <<>> ELSE <<names[j]>>)
         \o AbsentFrom(names, rows, j + 1)

\* C13: the missing-players error lists every name of the four that has no
\* player, in slot order, and no name that has one.
C13_EveryMissingNameListed ==
    \A w \in Workers :
        LET me == workers[w] IN
        (me.op = "record_match" /\ me.pc = "raised" /\ me.err = ErrNotFound) =>
            /\ me.missing = AbsentFrom(me.names, me.pre.players, 1)
            /\ me.missing # <<>>

\* C13 witness: two of the four names are missing
C13_Witness ==
    \E w \in Workers :
        /\ workers[w].err = ErrNotFound
        /\ workers[w].missing = <<"G", "H">>

IsPrefix(s, t) == Len(s) <= Len(t) /\ SubSeq(t, 1, Len(s)) = s

\* C14: match rows and history rows are append-only: no step of any call
\* changes or removes a row that exists; the two tables only grow at the end.
C14_AppendOnly ==
    [][ IsPrefix(matches, matches') /\ IsPrefix(history, history') ]_vars

\* C14 witness: a second match and its history rows were added after the first
C14_Witness ==
    /\ Len(matches) = 2
    /\ Len(history) = 8
    /\ history[5].player_id = history[1].player_id

\* C15: with equal team averages the winners' change is +k/2 and the losers'
\* -k/2; with k = 32 and the four players at 1500, team 1 winning, team 1's
\* players end at 1516, team 2's at 1484, and the match row stores 1500 as
\* both team averages.
C15_EqualTeams ==
    \A w \in Workers :
        LET me == workers[w] IN
        /\ ( /\ me.pc = "create_match"
             /\ me.p[1].current_elo + me.p[2].current_elo
                    = me.p[3].current_elo + me.p[4].current_elo )
           => /\ 2 * me.outcome.team1_change
                     = (IF me.winning_team = 1 THEN k_factor ELSE 0 - k_factor) * Scale
              /\ me.outcome.team2_change = 0 - me.outcome.team1_change
        /\ ( /\ me.op = "record_match" /\ me.pc = "done"
             /\ k_factor = 32 /\ me.winning_team = 1
             /\ \A j \in 1..4 : RowOf(me.pre.players, me.names[j]).current_elo = 1500 )
           => /\ RowOf(players, me.names[1]).current_elo = 1516
              /\ RowOf(players, me.names[2]).current_elo = 1516
              /\ RowOf(players, me.names[3]).current_elo = 1484
              /\ RowOf(players, me.names[4]).current_elo = 1484
              /\ matches[me.match_id].team1_avg_rating_before = 1500
              /\ matches[me.match_id].team2_avg_rating_before = 1500

\* C15 witness: the first match of four players at 1500, k = 32, team 1 won
C15_Witness ==
    \E w \in Workers :
        /\ workers[w].op = "record_match"
        /\ workers[w].pc = "done"
        /\ workers[w].winning_team = 1
        /\ k_factor = 32
        /\ Len(matches) = 1

\* a double strictly between 0 and 1
InsideUnit(x) ==
    /\ x[1] \in 0..(OneLimbs - 1)
    /\ x[2] \in 0..(Limb - 1)
    /\ x # <<0, 0>>

C19_MatchScoreWinnerFirst ==
    probe.fn = "match_score" =>
        LET t  == probe.args[1]
            s1 == probe.args[2]
            s2 == probe.args[3]
        IN  /\ (probe.result = <<"N/A">>) <=> (s1 = "None" \/ s2 = "None")
            /\ (s1 # "None" /\ s2 # "None" /\ t = 1) => probe.result = <<s1, " - ", s2>>
            /\ (s1 # "None" /\ s2 # "None" /\ t = 2) => probe.result = <<s2, " - ", s1>>

\* C19 witness: team 2 won and both scores are there
C19_Witness ==
    /\ probe.fn = "match_score"
    /\ probe.args = <<2, "6", "0">>

\* C20: constructing the calculator with a k-factor <= 0 raises, with a
\* k-factor > 0 it succeeds and the object stores that k-factor.
C20_KFactorChecked ==
    probe.fn = "EloCalculator" =>
        LET k == probe.args[1]
        IN  /\ k <= 0 => probe.result = <<ErrKFactor>>
            /\ k > 0  => probe.result = <<"none">> /\ k_factor = k

\* C20 witness: a k-factor of 0 was refused after a calculator was built
C20_Witness ==
    /\ probe.fn = "EloCalculator"
    /\ probe.args = <<0>>
    /\ probe.result = <<ErrKFactor>>
    /\ k_factor > 0

\* C17: get_player_history of an existing player returns the player's rows
\* most recent first, at most `limit` of them and then the `limit` most
\* recent ones; for a player without a match it returns the empty sequence
\* and raises nothing.
C17_MostRecentFirst ==
    (probe.fn = "get_player_history" /\ HasName(players, probe.args[1])) =>
        LET id    == RowOf(players, probe.args[1]).player_id
            limit == probe.args[2]
            own   == HistoryOfPlayer(id)
            res   == probe.result.rows
            shown == { res[j].history_id : j \in DOMAIN res }
        IN  /\ probe.result.err = "none"
            /\ Len(res) = IF Cardinality(own) < limit THEN Cardinality(own) ELSE limit
            /\ \A j \in DOMAIN res :
                   res[j].history_id \in own /\ history[res[j].history_id] = res[j]
            /\ \A j \in 1..(Len(res) - 1) : res[j].history_id > res[j + 1].history_id
            /\ \A h \in own \ shown : \A g \in shown : h < g
            /\ own = {} => res = <<>>

\* C17 witness: a player with three rows was asked for with limit 2
C17_Witness ==
    /\ probe.fn = "get_player_history"
    /\ probe.args[2] = 2
    /\ HasName(players, probe.args[1])
    /\ Cardinality(HistoryOfPlayer(RowOf(players, probe.args[1]).player_id)) = 3
    /\ Len(probe.result.rows) = 2

\* player p stands before player q in the ranked list: a higher rating, or
\* the same rating and created earlier
RanksBefore(p, q) ==
    \/ p.current_elo > q.current_elo
    \/ p.current_elo = q.current_elo /\ p.player_id < q.player_id

\* C18: get_rankings(limit) returns the first `limit` players of the list in
\* non-increasing order of current_elo in which players of equal rating are
\* in creation order.
C18_TiesInCreationOrder ==
    probe.fn = "get_rankings" =>
        LET limit == probe.args[1]
            res   == probe.result
        IN  /\ Len(res) = IF Len(players) < limit THEN Len(players) ELSE limit
            /\ \A j \in DOMAIN res : res[j] \in Range(players)
            /\ \A j \in 1..(Len(res) - 1) : RanksBefore(res[j], res[j + 1])
            /\ \A p \in Range(players) \ Range(res) :
                   \A j \in DOMAIN res : RanksBefore(res[j], p)

\* r is (sum / 2) rounded to the nearest integer, a half to the even one
IsRoundedMean(r, sum) ==
    IF sum % 2 = 0 THEN 2 * r = sum
    ELSE r % 2 = 0 /\ (2 * r = sum - 1 \/ 2 * r = sum + 1)

\* the rating of player id before match m, as the match's history row has it
OldRatingIn(m, id) ==
    history[CHOOSE h \in DOMAIN history :
                history[h].match_id = m /\ history[h].player_id = id].old_rating

\* the sum of the two ratings of a team before a match whose four history
\* rows are there
TeamSumBefore(m, team) ==
    IF team = 1
    THEN OldRatingIn(m, matches[m].team1_player1_id) + OldRatingIn(m, matches[m].team1_player2_id)
    ELSE OldRatingIn(m, matches[m].team2_player1_id) + OldRatingIn(m, matches[m].team2_player2_id)

\* C21: between sequential calls, a match row stores for each team the mean
\* of its two players' ratings as they were before the match, rounded to the
\* nearest integer with a half going to the even integer, and no later match
\* changes these two values.
C21_TeamAverageSnapshot ==
    /\ workers[1].pc \in Returned =>
           \A m \in DOMAIN matches :
               Cardinality(HistoryOfMatch(m)) = 4 =>
                   /\ IsRoundedMean(matches[m].team1_avg_rating_before, TeamSumBefore(m, 1))
                   /\ IsRoundedMean(matches[m].team2_avg_rating_before, TeamSumBefore(m, 2))
    /\ \A w \in Workers :
           LET me == workers[w]
               nm == Len(me.pre.matches)
               before(j) == RowOf(me.pre.players, me.names[j]).current_elo
           IN  (me.op = "record_match" /\ me.pc = "done") =>
                   /\ SubSeq(matches, 1, nm) = me.pre.matches
                   /\ IsRoundedMean(matches[nm + 1].team1_avg_rating_before,
                                    before(1) + before(2))
                   /\ IsRoundedMean(matches[nm + 1].team2_avg_rating_before,
                                    before(3) + before(4))

\* C21 witness: a match of a team whose ratings had an odd sum, its mean
\* rounded down to the even integer, and a later match that returned
C21_Witness ==
    /\ workers[1].op = "record_match" /\ workers[1].pc = "done"
    /\ \E m \in DOMAIN matches :
           /\ m < Len(matches)
           /\ Cardinality(HistoryOfMatch(m)) = 4
           /\ \E team \in {1, 2} :
                  /\ TeamSumBefore(m, team) % 2 = 1
                  /\ (TeamSumBefore(m, team) \div 2) % 2 = 0

\* the position in history of the n-th oldest row of player id
NthRowOf(id, n) ==
    CHOOSE h \in HistoryOfPlayer(id) :
        Cardinality({ g \in HistoryOfPlayer(id) : g <= h }) = n

\* C22: the rating chart of a player with history is a seed point at the
\* initial rating followed by one point per history row of the player, all
\* of them, oldest first, each at the row's new_rating.
C22_ChartHasEveryRecord ==
    LET id  == RowOf(players, probe.args[1]).player_id
        own == HistoryOfPlayer(id)
        res == probe.result
    IN  (probe.fn = "show_leaderboard" /\ own # {}) =>
            /\ Len(res) = Cardinality(own) + 1
            /\ res[1] = InitialRating
            /\ \A n \in 1..Cardinality(own) :
                   n + 1 <= Len(res) => res[n + 1] = history[NthRowOf(id, n)].new_rating

RECURSIVE ChainEnd(_, _)
\* the rating at which the chain of player id's rows among the first n
\* history rows ends: it starts at the initial rating and each row leads
\* from its old_rating to its new_rating; -1 when a row's old_rating is not
\* where the chain stands
ChainEnd(id, n) ==
    IF n = 0 THEN InitialRating
    ELSE LET prev == ChainEnd(id, n - 1)
         IN  IF history[n].player_id # id THEN prev
             ELSE IF history[n].old_rating = prev THEN history[n].new_rating
             ELSE -1

\* C23: between sequential calls, each player's history rows in
\* chronological order form a chain: the first old_rating is the initial
\* rating, each later old_rating is the new_rating of the row before, and
\* the last new_rating is the player's current_elo.
C23_HistoryChain ==
    workers[1].pc \in Returned =>
        \A j \in DOMAIN players :
            ChainEnd(players[j].player_id, Len(history)) = players[j].current_elo

\* C23 witness: a player with four history rows, the last call returned
C23_Witness ==
    /\ workers[1].op = "record_match" /\ workers[1].pc = "done"
    /\ \E j \in DOMAIN players :
           /\ Cardinality(HistoryOfPlayer(players[j].player_id)) = 4
           /\ players[j].current_elo # InitialRating

\* C24: when two add_player calls with the same name are interleaved, at
\* most one of them returns a player and no two rows of the players table
\* have the same name.
C24_OneAddPlayerWins ==
    /\ \A i, j \in DOMAIN players : i # j => players[i].name # players[j].name
    /\ \A w, v \in Workers :
           (/\ w # v
            /\ workers[w].op = "add_player" /\ workers[v].op = "add_player"
            /\ workers[w].name = workers[v].name)
           => ~(workers[w].pc = "done" /\ workers[v].pc = "done")

RECURSIVE TotalRating(_)
\* the sum of current_elo over the rows of a players table
TotalRating(rows) ==
    IF rows = <<>> THEN 0
    ELSE rows[Len(rows)].current_elo + TotalRating(SubSeq(rows, 1, Len(rows) - 1))

\* C25: a record_match that returned left the sum of current_elo over all
\* players as it was, and between calls that sum is the number of players
\* times the initial rating.
C25_TotalRatingConserved ==
    /\ (workers[1].op = "record_match" /\ workers[1].pc = "done")
           => TotalRating(players) = TotalRating(workers[1].pre.players)
    /\ workers[1].pc \in Returned
           => TotalRating(players) = Len(players) * InitialRating

RECURSIVE TotalOf(_, _)
\* the sum of f over the rows of a players table
TotalOf(f(_), rows) ==
    IF rows = <<>> THEN 0
    ELSE f(rows[Len(rows)]) + TotalOf(f, SubSeq(rows, 1, Len(rows) - 1))

WinsOf(player) == player.wins

LossesOf(player) == player.losses

GamesOf(player) == player.games_played

\* C26: between sequential calls the wins of all players add up to twice the
\* number of match rows, so do the losses, the games_played add up to four
\* times that number, and each player's games_played is the number of the
\* player's history rows.
C26_StatisticsAddUp ==
    workers[1].pc \in Returned =>
        /\ TotalOf(WinsOf, players) = 2 * Len(matches)
        /\ TotalOf(LossesOf, players) = 2 * Len(matches)
        /\ TotalOf(GamesOf, players) = 4 * Len(matches)
        /\ \A j \in DOMAIN players :
               players[j].games_played
                   = Cardinality(HistoryOfPlayer(players[j].player_id))

\* C26 witness: three matches and an added player, the last call returned
C26_Witness ==
    /\ workers[1].pc = "done"
    /\ Len(matches) = 3
    /\ Len(players) > Len(SeedNames)
    /\ \E j \in DOMAIN players : players[j].games_played = 0

\* C27: a record_match that returned left every player who was not in the
\* match as it was and kept the id and the name of the four who were, adding
\* and removing no player; an add_player that returned left every player,
\* match and history row that was there as it was.
C27_FrameOfTheCalls ==
    LET me  == workers[1]
        old == me.pre.players
    IN  /\ (me.op = "record_match" /\ me.pc = "done") =>
               /\ Len(players) = Len(old)
               /\ \A j \in DOMAIN old :
                      /\ players[j].player_id = old[j].player_id
                      /\ players[j].name = old[j].name
                      /\ (\A i \in 1..4 : me.names[i] # old[j].name) => players[j] = old[j]
        /\ (me.op = "add_player" /\ me.pc = "done") =>
               /\ Len(players) = Len(old) + 1
               /\ SubSeq(players, 1, Len(old)) = old
               /\ matches = me.pre.matches
               /\ history = me.pre.history

\* C27 witness: a match returned in which a player with earlier games did
\* not take part
C27_Witness ==
    /\ workers[1].op = "record_match" /\ workers[1].pc = "done"
    /\ \E j \in DOMAIN players :
           /\ \A i \in 1..4 : workers[1].names[i] # players[j].name
           /\ players[j].games_played > 0
           /\ players[j].current_elo # InitialRating

====
